---- MODULE Spec2Model ----
(***************************************************************************)
(* Model of the MAC parser / formatter and the magic packet builder of the *)
(* waker / wakeonlan libraries, of the sending of a packet (library calls  *)
(* and the HTTP wakeup handler), and of the machine list of the command    *)
(* line tools.                                                             *)
(*                                                                         *)
(* A character is modelled as a one-element token (a string naming it); a  *)
(* string is a sequence of characters; a byte is a number in 0..255.       *)
(***************************************************************************)
EXTENDS Integers, Sequences, FiniteSets, TLC

VARIABLES input, op, result, text, prev,
          call, sockets, wire,
          sim, disk, machines, cli

\* the parser / builder, the network, the command line tool
macVars == <<input, op, result, text, prev>>
netVars == <<call, sockets, wire>>
cliVars == <<sim, disk, machines, cli>>

vars == <<macVars, netVars, cliVars>>

(***************************************************************************)
(* Bounds of the explored inputs.                                          *)
(***************************************************************************)
MaxPad == 1
MaxSliceLen == 8
MaxShort == 2

(***************************************************************************)
(* Program constants.                                                      *)
(***************************************************************************)
MacLen == 6
Repetitions == 16
HeaderLen == 6
HeaderByte == 255

(***************************************************************************)
(* Characters and their Unicode scalar values.                             *)
(***************************************************************************)
DecDigits == <<"0", "1", "2", "3", "4", "5", "6", "7", "8", "9">>
LowerAF == <<"a", "b", "c", "d", "e", "f">>
UpperAF == <<"A", "B", "C", "D", "E", "F">>
OtherChars ==
    <<"g", "G", ":", "-", "_", ".", " ", "TAB", "/", "@", "GRAVE", "U+00E9",
      "h", "l", "p">>
OtherCodes == <<103, 71, 58, 45, 95, 46, 32, 9, 47, 64, 96, 233, 104, 108, 112>>

IndexOf(seq, c) == CHOOSE i \in 1..Len(seq) : seq[i] = c

InSeq(seq, c) == \E i \in 1..Len(seq) : seq[i] = c

CodePoint(c) ==
    IF InSeq(DecDigits, c) THEN 47 + IndexOf(DecDigits, c)
    ELSE IF InSeq(LowerAF, c) THEN 96 + IndexOf(LowerAF, c)
    ELSE IF InSeq(UpperAF, c) THEN 64 + IndexOf(UpperAF, c)
    ELSE OtherCodes[IndexOf(OtherChars, c)]

\* number of bytes of the UTF-8 encoding of c
len_utf8(c) ==
    IF CodePoint(c) < 128 THEN 1
    ELSE IF CodePoint(c) < 2048 THEN 2
    ELSE IF CodePoint(c) < 65536 THEN 3 ELSE 4

RECURSIVE str_len(_)
\* str::len: the length of the string in bytes
str_len(s) == IF s = <<>> THEN 0 ELSE len_utf8(Head(s)) + str_len(Tail(s))

\* char::is_whitespace on the characters of the model
is_whitespace(c) == CodePoint(c) \in {9, 10, 11, 12, 13, 32}

RECURSIVE trim_start(_)
trim_start(s) ==
    IF s # <<>> /\ is_whitespace(Head(s)) THEN trim_start(Tail(s)) ELSE s

RECURSIVE trim_end(_)
trim_end(s) ==
    IF s # <<>> /\ is_whitespace(s[Len(s)])
    THEN trim_end(SubSeq(s, 1, Len(s) - 1)) ELSE s

\* str::trim
trim(s) == trim_end(trim_start(s))

(***************************************************************************)
(* Results: Ok(v) or one of the MacAddressError variants with its payload. *)
(***************************************************************************)
Ok(v) == [tag |-> "Ok", val |-> v]
InvalidByteInMac(s) == [tag |-> "InvalidByteInMac", val |-> s]
InvalidMacAddress(s) == [tag |-> "InvalidMacAddress", val |-> s]
InvalidLength(n) == [tag |-> "InvalidLength", val |-> n]
None == [tag |-> "None", val |-> <<>>]

IsOk(r) == r.tag = "Ok"
IsErr(r) == r.tag \in {"InvalidByteInMac", "InvalidMacAddress", "InvalidLength"}

(***************************************************************************)
(* 8-bit arithmetic.                                                       *)
(***************************************************************************)
RECURSIVE Pow2(_)
Pow2(k) == IF k = 0 THEN 1 ELSE 2 * Pow2(k - 1)

\* u8 << k (k < 8): the bits shifted past bit 7 are lost
shl_u8(x, k) == (x * Pow2(k)) % 256

RECURSIVE bitor(_, _)
\* u8 | u8
bitor(x, y) ==
    IF x = 0 THEN y
    ELSE IF y = 0 THEN x
    ELSE (IF x % 2 = 1 \/ y % 2 = 1 THEN 1 ELSE 0) + 2 * bitor(x \div 2, y \div 2)

(***************************************************************************)
(* hex_val: the value of a hexadecimal digit.                              *)
(***************************************************************************)
\* variant: the digits A-F lose their offset of 10
hex_val_upper_offset(c) ==
    IF CodePoint(c) >= 48 /\ CodePoint(c) <= 57 THEN Ok(CodePoint(c) - 48)
    ELSE IF CodePoint(c) >= 97 /\ CodePoint(c) <= 102 THEN Ok(CodePoint(c) - 97 + 10)
    ELSE IF CodePoint(c) >= 65 /\ CodePoint(c) <= 70 THEN Ok(CodePoint(c) - 65)
    ELSE InvalidByteInMac(<<c>>)

hex_val(c) ==
    IF CodePoint(c) >= 48 /\ CodePoint(c) <= 57 THEN Ok(CodePoint(c) - 48)
    ELSE IF CodePoint(c) >= 97 /\ CodePoint(c) <= 102 THEN Ok(CodePoint(c) - 97 + 10)
    ELSE IF CodePoint(c) >= 65 /\ CodePoint(c) <= 70 THEN Ok(CodePoint(c) - 65 + 10)
    ELSE InvalidByteInMac(<<c>>)

(***************************************************************************)
(* Mac::from_str.  The iterator s_chars is the position pos of the next    *)
(* character to read (1-based); next() at pos > Len(s) yields None.        *)
(***************************************************************************)
has_next(s, pos) == pos <= Len(s)

\* variant: the two digits change places
byte_of_pair_swapped(c1, c2) ==
    IF ~IsOk(hex_val(c1)) THEN hex_val(c1)
    ELSE IF ~IsOk(hex_val(c2)) THEN hex_val(c2)
    ELSE Ok(bitor(shl_u8(hex_val(c2).val, 4), hex_val(c1).val))

\* (hex_val(c1)? << 4) | hex_val(c2)?
byte_of_pair(c1, c2) ==
    IF ~IsOk(hex_val(c1)) THEN hex_val(c1)
    ELSE IF ~IsOk(hex_val(c2)) THEN hex_val(c2)
    ELSE Ok(bitor(shl_u8(hex_val(c1).val, 4), hex_val(c2).val))

is_separator(c) == c = ":" \/ c = "-" \/ c = "_" \/ c = "."

\* variant: a missing separator is reported as a malformed address
separator_step_malformed(s, pos) ==
    IF has_next(s, pos) /\ is_separator(s[pos]) THEN Ok(pos + 1)
    ELSE InvalidMacAddress(s)

\* the match on s_chars.next() after the groups 0..4
separator_step(s, pos) ==
    IF has_next(s, pos)
    THEN IF is_separator(s[pos]) THEN Ok(pos + 1) ELSE InvalidMacAddress(s)
    ELSE InvalidLength(str_len(s))

\* variant: c1 is decoded before c2 is read
read_pair_eager(s, pos) ==
    IF ~has_next(s, pos) THEN InvalidLength(str_len(s))
    ELSE IF ~IsOk(hex_val(s[pos])) THEN hex_val(s[pos])
    ELSE IF ~has_next(s, pos + 1) THEN InvalidLength(str_len(s))
    ELSE byte_of_pair(s[pos], s[pos + 1])

\* one iteration of the loop over bytes: reads c1 and c2, then decodes them
read_pair(s, pos) ==
    IF ~has_next(s, pos) THEN InvalidLength(str_len(s))
    ELSE IF ~has_next(s, pos + 1) THEN InvalidLength(str_len(s))
    ELSE byte_of_pair(s[pos], s[pos + 1])

\* variant: characters after the sixth group are ignored
trailing_check_ignored(s, pos, bytes) == Ok(bytes)

\* the check after the loop
trailing_check(s, pos, bytes) ==
    IF has_next(s, pos) THEN InvalidLength(str_len(s)) ELSE Ok(bytes)

RECURSIVE from_str_loop(_, _, _, _)
from_str_loop(s, i, pos, bytes) ==
    IF i = MacLen THEN trailing_check(s, pos, bytes)
    ELSE LET b == read_pair(s, pos) IN
         IF ~IsOk(b) THEN b
         ELSE IF i < MacLen - 1
              THEN LET sep == separator_step(s, pos + 2) IN
                   IF ~IsOk(sep) THEN sep
                   ELSE from_str_loop(s, i + 1, sep.val, Append(bytes, b.val))
              ELSE from_str_loop(s, i + 1, pos + 2, Append(bytes, b.val))

\* variant: only leading whitespace is removed
from_str_trim_start(s) == from_str_loop(trim_start(s), 0, 1, <<>>)

from_str(s) == from_str_loop(trim(s), 0, 1, <<>>)

(***************************************************************************)
(* Formatting: {:02x} / {:02X} of each byte, joined by a colon.          *)
(***************************************************************************)
LowerDigits == DecDigits \o LowerAF
UpperDigits == DecDigits \o UpperAF

\* variant: {:x}, a byte below 16 is not padded with a zero
fmt_02_unpadded(b, digits) ==
    IF b < 16 THEN <<digits[b + 1]>>
    ELSE <<digits[(b \div 16) + 1], digits[(b % 16) + 1]>>

\* {:02x} of a u8 with the given digit table
fmt_02(b, digits) == <<digits[(b \div 16) + 1], digits[(b % 16) + 1]>>

RECURSIVE fmt_join_spaced(_, _, _)
\* variant: the groups are joined by a space
fmt_join_spaced(bytes, i, digits) ==
    IF i > Len(bytes) THEN <<>>
    ELSE (IF i > 1 THEN <<" ">> ELSE <<>>) \o fmt_02(bytes[i], digits)
         \o fmt_join_spaced(bytes, i + 1, digits)

RECURSIVE fmt_join(_, _, _)
fmt_join(bytes, i, digits) ==
    IF i > Len(bytes) THEN <<>>
    ELSE (IF i > 1 THEN <<":">> ELSE <<>>) \o fmt_02(bytes[i], digits)
         \o fmt_join(bytes, i + 1, digits)

\* variant: the lowercase rendering uses the uppercase digits
LowerHex_fmt_upper(mac) == fmt_join(mac, 1, UpperDigits)

LowerHex_fmt(mac) == fmt_join(mac, 1, LowerDigits)
UpperHex_fmt(mac) == fmt_join(mac, 1, UpperDigits)
Display_fmt(mac) == LowerHex_fmt(mac)

(***************************************************************************)
(* Conversions to the 6 bytes of a MAC and the packet builder.  An input   *)
(* is [kind, val]: kind "str", "String" (a sequence of characters),        *)
(* "slice", "array" or "mac" (a sequence of bytes).                        *)
(***************************************************************************)
\* variant: a slice longer than 6 bytes is truncated
slice_as_mac_bytes_truncating(v) ==
    IF Len(v) < MacLen THEN InvalidLength(Len(v)) ELSE Ok(SubSeq(v, 1, 6))

\* AsMacBytes for &[u8]
slice_as_mac_bytes(v) ==
    IF Len(v) # MacLen THEN InvalidLength(Len(v)) ELSE Ok(SubSeq(v, 1, 6))

\* TryFrom<&[u8]> for Mac
try_from(v) ==
    IF Len(v) # MacLen THEN InvalidLength(Len(v)) ELSE Ok(v)

as_mac_bytes(in) ==
    CASE in.kind = "mac" -> Ok(in.val)
      [] in.kind = "array" -> Ok(in.val)
      [] in.kind = "slice" -> slice_as_mac_bytes(in.val)
      [] in.kind \in {"str", "String"} -> from_str(in.val)

RECURSIVE extend_times(_, _, _)
\* k times packet.extend_from_slice(&addr)
extend_times(packet, addr, k) ==
    IF k = 0 THEN packet ELSE extend_times(packet \o addr, addr, k - 1)

\* variant: one repetition of the address is missing
create_magic_packet_impl_15(addr) ==
    extend_times([i \in 1..HeaderLen |-> HeaderByte], addr, Repetitions - 1)

create_magic_packet_impl(addr) ==
    extend_times([i \in 1..HeaderLen |-> HeaderByte], addr, Repetitions)

\* variant: a failed conversion is replaced by the all-zero address
create_magic_packet_defaulting(in) ==
    IF IsOk(as_mac_bytes(in)) THEN Ok(create_magic_packet_impl(as_mac_bytes(in).val))
    ELSE Ok(create_magic_packet_impl(<<0, 0, 0, 0, 0, 0>>))

create_magic_packet(in) ==
    IF IsOk(as_mac_bytes(in)) THEN Ok(create_magic_packet_impl(as_mac_bytes(in).val))
    ELSE as_mac_bytes(in)

(***************************************************************************)
(* The inputs a caller may pass.  Strings are built from a well-formed MAC *)
(* string (sample bytes, a digit case, a separator pattern) by at most one *)
(* edit (a truncation, a replaced, inserted or deleted character, a        *)
(* suffix), with optional surrounding whitespace; short arbitrary strings  *)
(* are added.  Slices are byte sequences of every length up to             *)
(* MaxSliceLen.                                                            *)
(***************************************************************************)
ByteSamples == {<<1, 35, 69, 103, 137, 171>>, <<205, 239, 0, 255, 154, 9>>}

SepPatterns ==
    {<<":", ":", ":", ":", ":">>, <<"-", "-", "-", "-", "-">>,
     <<":", "-", "_", ".", ":">>}

Cases == {"lower", "upper", "mixed"}

EditChars == {"g", "G", "0", "F", ":", " ", "/", "@", "GRAVE", "U+00E9"}

Suffixes == {<<":", "C", "D">>, <<"C", "D">>, <<"-", "0">>}

ShortAlphabet == {"0", "g", ":", " "}

EncodeByte(b, case) ==
    <<(IF case = "lower" THEN LowerDigits ELSE UpperDigits)[(b \div 16) + 1],
      (IF case = "upper" THEN UpperDigits ELSE LowerDigits)[(b % 16) + 1]>>

RECURSIVE Encode(_, _, _, _)
Encode(bytes, i, case, seps) ==
    IF i > Len(bytes) THEN <<>>
    ELSE (IF i > 1 THEN <<seps[i - 1]>> ELSE <<>>) \o EncodeByte(bytes[i], case)
         \o Encode(bytes, i + 1, case, seps)

WellFormedStrings ==
    {Encode(b, 1, c, p) : b \in ByteSamples, c \in Cases, p \in SepPatterns}

\* the well-formed strings that are edited
EditedStrings ==
    {Encode(<<1, 35, 69, 103, 137, 171>>, 1, "upper", <<":", ":", ":", ":", ":">>),
     Encode(<<205, 239, 0, 255, 154, 9>>, 1, "lower", <<":", "-", "_", ".", ":">>),
     Encode(<<205, 239, 0, 255, 154, 9>>, 1, "mixed", <<"-", "-", "-", "-", "-">>)}

Edits(t) ==
    {t}
    \cup {SubSeq(t, 1, k) : k \in 0..(Len(t) - 1)}
    \cup {[t EXCEPT ![p] = c] : p \in 1..Len(t), c \in EditChars}
    \cup {SubSeq(t, 1, p - 1) \o <<c>> \o SubSeq(t, p, Len(t)) :
            p \in 1..(Len(t) + 1), c \in EditChars}
    \cup {SubSeq(t, 1, p - 1) \o SubSeq(t, p + 1, Len(t)) : p \in 1..Len(t)}
    \cup {t \o x : x \in Suffixes}
    \cup {Append(SubSeq(t, 1, k), c) : k \in 0..(Len(t) - 1), c \in EditChars}

RECURSIVE Repeat(_, _)
Repeat(c, n) == IF n = 0 THEN <<>> ELSE <<c>> \o Repeat(c, n - 1)

Padded(t) ==
    {Repeat(" ", l) \o t \o Repeat("TAB", r) : l \in 0..MaxPad, r \in 0..MaxPad}

RECURSIVE StringsUpTo(_)
StringsUpTo(n) ==
    IF n = 0 THEN {<<>>}
    ELSE StringsUpTo(n - 1)
         \cup {Append(t, c) : t \in {u \in StringsUpTo(n - 1) : Len(u) = n - 1},
                              c \in ShortAlphabet}

StringInputs ==
    UNION {UNION {Padded(e) : e \in Edits(t)} : t \in EditedStrings}
    \cup UNION {Padded(t) : t \in WellFormedStrings}
    \cup StringsUpTo(MaxShort)

ByteValues ==
    ByteSamples \cup {<<0, 0, 0, 0, 0, 0>>, <<255, 255, 255, 255, 255, 255>>,
                      <<0, 1, 2, 3, 4, 5>>, <<16, 32, 64, 128, 127, 254>>}

SliceInputs ==
    {SubSeq(b \o b, 1, n) : b \in ByteValues, n \in 0..MaxSliceLen}

\* inputs that are strings, and inputs that are byte sequences
TextInputs ==
    {[kind |-> "str", val |-> t] : t \in StringInputs}
    \cup {[kind |-> "String", val |-> t] : t \in WellFormedStrings}

ByteInputs ==
    {[kind |-> "slice", val |-> v] : v \in SliceInputs}
    \cup {[kind |-> k, val |-> b] : k \in {"array", "mac"}, b \in ByteValues}

\* the accepted forms in which a caller can pass the 6 bytes b
TextFormsOf(b) ==
    {[kind |-> k, val |-> Encode(b, 1, c, p)] :
        k \in {"str", "String"}, c \in Cases, p \in SepPatterns}

ByteFormsOf(b) == {[kind |-> k, val |-> b] : k \in {"slice", "array", "mac"}}

(***************************************************************************)
(* The state machine: a caller holds an input, applies one operation of    *)
(* the library to it (op names it, result is what it returned), may format *)
(* a parsed Mac (text), and may pass the same bytes again in another form  *)
(* (prev keeps the earlier result).                                        *)
(***************************************************************************)
NoText == [fmt |-> "none", val |-> <<>>]
NoCall == None

IsString(in) == in.kind \in {"str", "String"}

\* nothing is being sent, and no command line tool runs
NoSend == call = <<>> /\ sockets = <<>> /\ wire = <<>>
NoCli == sim = <<>> /\ disk = <<>> /\ machines = <<>> /\ cli = <<>>

Init ==
    /\ NoSend
    /\ NoCli
    /\ \/ input \in TextInputs
       \/ input \in ByteInputs
    /\ op = "none"
    /\ result = None
    /\ text = NoText
    /\ prev = NoCall

FromStr ==
    /\ op = "none"
    /\ IsString(input)
    /\ op' = "from_str"
    /\ result' = from_str(input.val)
    /\ UNCHANGED <<input, text, prev, netVars, cliVars>>

TryFrom ==
    /\ op = "none"
    /\ input.kind = "slice"
    /\ op' = "try_from"
    /\ result' = try_from(input.val)
    /\ UNCHANGED <<input, text, prev, netVars, cliVars>>

AsMacBytes ==
    /\ op = "none"
    /\ op' = "as_mac_bytes"
    /\ result' = as_mac_bytes(input)
    /\ UNCHANGED <<input, text, prev, netVars, cliVars>>

CreateMagicPacket ==
    /\ op = "none"
    /\ op' = "create_magic_packet"
    /\ result' = create_magic_packet(input)
    /\ UNCHANGED <<input, text, prev, netVars, cliVars>>

\* a Mac obtained from from_str / try_from is formatted
Format(f) ==
    /\ op \in {"from_str", "try_from"}
    /\ IsOk(result)
    /\ text = NoText
    /\ text' = [fmt |-> f,
                val |-> CASE f = "Display" -> Display_fmt(result.val)
                          [] f = "LowerHex" -> LowerHex_fmt(result.val)
                          [] f = "UpperHex" -> UpperHex_fmt(result.val)]
    /\ UNCHANGED <<input, op, result, prev, netVars, cliVars>>

FormatMac == \E f \in {"Display", "LowerHex", "UpperHex"} : Format(f)

\* the caller passes the bytes of a successful call again, in any form
NextCall ==
    /\ op = "create_magic_packet"
    /\ IsOk(result)
    /\ prev = NoCall
    /\ \/ input' \in TextFormsOf(as_mac_bytes(input).val)
       \/ input' \in ByteFormsOf(as_mac_bytes(input).val)
    /\ prev' = result
    /\ op' = "none"
    /\ result' = None
    /\ text' = NoText
    /\ UNCHANGED <<netVars, cliVars>>

Next ==
    \/ FromStr
    \/ TryFrom
    \/ AsMacBytes
    \/ CreateMagicPacket
    \/ FormatMac
    \/ NextCall

Spec == Init /\ [][Next]_vars

(***************************************************************************)
(* Vocabulary of the properties, stated on strings without the parser.     *)
(***************************************************************************)
HexDigitChars == {DecDigits[i] : i \in 1..10} \cup {LowerAF[i] : i \in 1..6}
                 \cup {UpperAF[i] : i \in 1..6}
Separators == {":", "-", "_", "."}

\* position i of a MAC string holds a separator (3, 6, ...) or a hex digit
Conforms(t, i) ==
    IF i % 3 = 0 THEN t[i] \in Separators ELSE t[i] \in HexDigitChars

\* six groups of two hex digits, one separator between consecutive groups
WellFormed(t) == Len(t) = 17 /\ \A i \in 1..17 : Conforms(t, i)

\* the value of a hex digit, read off the digit tables
DigitValue(c) ==
    IF InSeq(LowerDigits, c) THEN IndexOf(LowerDigits, c) - 1
    ELSE IndexOf(UpperDigits, c) - 1

\* the 6 bytes denoted by the 12 hex digits of a well-formed string
DigitBytes(t) ==
    [k \in 1..6 |-> 16 * DigitValue(t[3 * k - 2]) + DigitValue(t[3 * k - 1])]

ToLower(c) == IF InSeq(UpperAF, c) THEN LowerAF[IndexOf(UpperAF, c)] ELSE c

Lowercase(t) == [i \in 1..Len(t) |-> ToLower(t[i])]

\* the same 12 hex digits in lowercase, joined by a colon
Canonical(t) == [i \in 1..17 |-> IF i % 3 = 0 THEN ":" ELSE ToLower(t[i])]

\* the number of separator-delimited groups of t
GroupCount(t) == 1 + Cardinality({i \in 1..Len(t) : t[i] \in Separators})

\* t stops before six groups are complete, and is well formed as far as it goes
EndsEarly(t) == Len(t) < 17 /\ \A i \in 1..Len(t) : Conforms(t, i)

\* t starts with six well-formed groups and goes on after the 12th hex digit
HasTrailing(t) == Len(t) > 17 /\ WellFormed(SubSeq(t, 1, 17))

\* the first defect of t is the non-hex character at the hex-digit position p
BadHexAt(t, p) ==
    /\ p \in 1..Len(t)
    /\ p <= 17
    /\ p % 3 # 0
    /\ t[p] \notin HexDigitChars
    /\ \A i \in 1..(p - 1) : Conforms(t, i)

\* "01:23:45:67:89:AB", "01-23-45-67-89-ab" and their bytes
MAC_BYTES == <<1, 35, 69, 103, 137, 171>>
MAC_STRING ==
    <<"0", "1", ":", "2", "3", ":", "4", "5", ":", "6", "7", ":", "8", "9", ":", "A", "B">>
MAC_STRING_DASHED ==
    <<"0", "1", "-", "2", "3", "-", "4", "5", "-", "6", "7", "-", "8", "9", "-", "a", "b">>

\* "01:23:45:67:89" and "01:23:45:67:89:AB:CD"
FIVE_GROUPS == SubSeq(MAC_STRING, 1, 14)
SEVEN_GROUPS == MAC_STRING \o <<":", "C", "D">>

EXPECTED_PACKET ==
    <<255, 255, 255, 255, 255, 255, 1, 35, 69, 103, 137, 171, 1, 35, 69, 103, 137, 171, 1, 35, 69,
      103, 137, 171, 1, 35, 69, 103, 137, 171, 1, 35, 69, 103, 137, 171, 1, 35, 69, 103, 137, 171, 1,
      35, 69, 103, 137, 171, 1, 35, 69, 103, 137, 171, 1, 35, 69, 103, 137, 171, 1, 35, 69, 103, 137,
      171, 1, 35, 69, 103, 137, 171, 1, 35, 69, 103, 137, 171, 1, 35, 69, 103, 137, 171, 1, 35, 69,
      103, 137, 171, 1, 35, 69, 103, 137, 171, 1, 35, 69, 103, 137, 171>>

(***************************************************************************)
(* Properties.                                                             *)
(***************************************************************************)

\* C1: for every 6-byte value b, create_magic_packet(b) is a packet of exactly
\* 102 bytes whose first 6 bytes are 0xFF and whose 16 following blocks of 6
\* bytes each equal b; for 01:23:45:67:89:AB it is the EXPECTED_PACKET of the
\* tests.
C1_PacketLayout ==
    /\ (op = "create_magic_packet" /\ input.kind \in {"array", "mac"}) =>
          /\ IsOk(result)
          /\ Len(result.val) = 102
          /\ \A i \in 1..6 : result.val[i] = 255
          /\ \A k \in 0..15 : \A j \in 1..6 :
                result.val[6 + 6 * k + j] = input.val[j]
    /\ (/\ op = "create_magic_packet"
        /\ \/ IsString(input) /\ input.val = MAC_STRING
           \/ ~IsString(input) /\ input.val = MAC_BYTES) =>
          result = Ok(EXPECTED_PACKET)

C1_Witness ==
    /\ op = "create_magic_packet"
    /\ input.kind = "array"
    /\ input.val = <<205, 239, 0, 255, 154, 9>>
    /\ IsOk(result)
    /\ Len(result.val) = 102

\* C2: Mac::from_str(s) succeeds if and only if s, once trimmed, is exactly
\* six groups of two hex digits with one separator of : - _ . between
\* consecutive groups; every other input fails.
C2_AcceptsExactlyWellFormed ==
    op = "from_str" => (IsOk(result) <=> WellFormed(trim(input.val)))

C2_Witness ==
    /\ op = "from_str"
    /\ IsOk(result)
    /\ input.val # trim(input.val)
    /\ \E i \in {3, 6} : trim(input.val)[i] # ":"

\* C3: the bytes parsed from a well-formed MAC string are the values of its
\* 12 hex digits, whatever the separators and the case of the digits;
\* "01:23:45:67:89:AB" and "01-23-45-67-89-ab" both give 01 23 45 67 89 AB.
C3_BytesFromDigitsOnly ==
    /\ (op = "from_str" /\ WellFormed(trim(input.val))) =>
          result = Ok(DigitBytes(trim(input.val)))
    /\ (op = "from_str" /\ input.val \in {MAC_STRING, MAC_STRING_DASHED}) =>
          result = Ok(MAC_BYTES)

C3_Witness ==
    /\ op = "from_str"
    /\ input.val = MAC_STRING_DASHED
    /\ result = Ok(MAC_BYTES)

\* C4: formatting the Mac parsed from a validly formatted string with Display
\* or LowerHex gives the same 12 hex digits in lowercase joined by ':'; for a
\* colon-separated string this is the lowercase of the string.
C4_ParseThenFormat ==
    (op = "from_str" /\ text.fmt \in {"Display", "LowerHex"}) =>
        /\ text.val = Canonical(trim(input.val))
        /\ (WellFormed(input.val) /\ \A i \in {3, 6, 9, 12, 15} : input.val[i] = ":")
              => text.val = Lowercase(input.val)

C4_Witness ==
    /\ op = "from_str"
    /\ text.fmt = "Display"
    /\ input.val = MAC_STRING
    /\ text.val = Lowercase(MAC_STRING)

\* C5: parsing, or creating a magic packet from, a string whose number of
\* separator-delimited groups is not exactly 6 fails with InvalidMacAddress
\* carrying the input string ("01:23:45:67:89" gives
\* InvalidMacAddress("01:23:45:67:89")).
C5_WrongGroupCountIsInvalidMacAddress ==
    (/\ op \in {"from_str", "create_magic_packet"}
     /\ IsString(input)
     /\ GroupCount(trim(input.val)) # 6) =>
        result = InvalidMacAddress(input.val)

C7_TrailingIsInvalidMacAddress ==
    (op = "from_str" /\ HasTrailing(trim(input.val))) =>
        result = InvalidMacAddress(input.val)

C9_SliceLength ==
    (op \in {"as_mac_bytes", "try_from", "create_magic_packet"} /\ input.kind = "slice") =>
        IF Len(input.val) # 6
        THEN result = InvalidLength(Len(input.val))
        ELSE IF op = "create_magic_packet"
             THEN IsOk(result) /\ SubSeq(result.val, 7, 12) = input.val
             ELSE result = Ok(input.val)

C9_Witness ==
    /\ op = "create_magic_packet"
    /\ input.kind = "slice"
    /\ Len(input.val) = 7
    /\ result = InvalidLength(7)

\* C10: create_magic_packet never fails for a Mac or a [u8; 6]; inputs of any
\* accepted form that denote the same 6 bytes yield identical packets; and for
\* a string or slice that fails conversion it returns exactly the conversion
\* error and no packet.
C10_PacketIsFunctionOfMac ==
    op = "create_magic_packet" =>
        /\ input.kind \in {"mac", "array"} => IsOk(result)
        /\ prev.tag # "None" => result = prev
        /\ (IsString(input) /\ ~IsOk(from_str(input.val))) =>
              result = from_str(input.val)
        /\ (input.kind = "slice" /\ ~IsOk(try_from(input.val))) =>
              result = try_from(input.val)

C10_Witness ==
    /\ op = "create_magic_packet"
    /\ prev.tag = "Ok"
    /\ input.kind = "String"
    /\ result = prev

\* "01:23:45:67:89:ab"
MAC_STRING_LOWER == Lowercase(MAC_STRING)

\* C11: formatting a Mac gives exactly 17 characters: six groups of two hex
\* digits, each the zero-padded value of one byte in order, joined by a colon;
\* Display and LowerHex use the digits 0-9 a-f, UpperHex the digits 0-9 A-F,
\* and Display gives the same text as LowerHex (01 23 45 67 89 AB gives
\* "01:23:45:67:89:ab", and "01:23:45:67:89:AB" in uppercase).
C11_FormatIsSeventeenChars ==
    text.fmt # "none" =>
        LET digits == IF text.fmt = "UpperHex" THEN UpperDigits ELSE LowerDigits
        IN  /\ Len(text.val) = 17
            /\ \A k \in 1..5 : text.val[3 * k] = ":"
            /\ \A i \in 1..17 : i % 3 # 0 => InSeq(digits, text.val[i])
            /\ DigitBytes(text.val) = result.val
            /\ text.fmt = "Display" => text.val = LowerHex_fmt(result.val)
            /\ result.val = MAC_BYTES =>
                  text.val = (IF text.fmt = "UpperHex" THEN MAC_STRING
                              ELSE MAC_STRING_LOWER)

C11_Witness ==
    /\ text.fmt = "Display"
    /\ result.val = <<205, 239, 0, 255, 154, 9>>
    /\ text.val[7] = "0" /\ text.val[8] = "0" /\ text.val[16] = "0"

(***************************************************************************)
(* Sending.  Up to NumCalls calls run concurrently: wake_device (waker),   *)
(* send_magic_packet_to_broadcast_address (wakeonlan) and the wakeup       *)
(* handler of the server.  A call is a record: fn names the entry point,   *)
(* pc the system call it is about to make, socket the socket it holds      *)
(* (0: none), ret / context what the send returned, status / message the   *)
(* HTTP response, trace the system calls it has made.  sockets is the      *)
(* table of the sockets the operating system has created, wire the         *)
(* datagrams handed to the network, in order.  A system call succeeds or   *)
(* fails as the operating system decides.                                  *)
(***************************************************************************)
NumCalls == 2

Calls == 1..NumCalls

DEFAULT_BROADCAST == "255.255.255.255:9"
DEFAULT_BIND == "0.0.0.0:0"

Packets == {create_magic_packet_impl(b) : b \in ByteSamples}

\* the options wake_device is called with
OptionsGiven ==
    {[packet |-> create_magic_packet_impl(<<205, 239, 0, 255, 154, 9>>),
      broadcast_address |-> DEFAULT_BROADCAST, bind_address |-> DEFAULT_BIND],
     [packet |-> create_magic_packet_impl(<<1, 35, 69, 103, 137, 171>>),
      broadcast_address |-> "192.168.0.255:9", bind_address |-> "192.168.0.10:0"]}

\* the arguments send_magic_packet_to_broadcast_address is called with
ArgsGiven ==
    {[packet |-> create_magic_packet_impl(<<205, 239, 0, 255, 154, 9>>),
      broadcast_address |-> "192.168.0.255:9"],
     [packet |-> create_magic_packet_impl(<<1, 35, 69, 103, 137, 171>>),
      broadcast_address |-> DEFAULT_BROADCAST]}

\* "01:23:45:67:89:AB", " 01-23-45-67-89-ab", "01:23:45:67:89", "0g"
RequestMacs ==
    {<<"0", "1", ":", "2", "3", ":", "4", "5", ":", "6", "7", ":", "8", "9", ":", "A", "B">>,
     <<" ", "0", "1", "-", "2", "3", "-", "4", "5", "-", "6", "7", "-", "8", "9", "-", "a", "b">>,
     <<"0", "1", ":", "2", "3", ":", "4", "5", ":", "6", "7", ":", "8", "9">>,
     <<"0", "g">>}

OK == 200
BAD_REQUEST == 400
INTERNAL_SERVER_ERROR == 500

NoMessage == [fmt |-> "", arg |-> <<>>]

IdleCall ==
    [fn |-> "none", pc |-> "idle", mac |-> <<>>, packet |-> <<>>,
     broadcast_address |-> "", bind_address |-> "", socket |-> 0,
     ret |-> "none", context |-> "", status |-> 0, message |-> NoMessage,
     trace |-> <<>>]

\* WakeOptions::new(&packet): the default broadcast and bind addresses
WakeOptions_new(packet) ==
    [packet |-> packet, broadcast_address |-> DEFAULT_BROADCAST,
     bind_address |-> DEFAULT_BIND]

\* Display of the library's Error
error_to_string(e) ==
    CASE e.tag = "InvalidByteInMac" ->
            [fmt |-> "Invalid byte in MAC address: {0}", arg |-> e.val]
      [] e.tag = "InvalidMacAddress" ->
            [fmt |-> "Invalid MAC address: {0}", arg |-> e.val]
      [] e.tag = "InvalidLength" ->
            [fmt |-> "Invalid MAC address length: expected 6 bytes, got {0}",
             arg |-> e.val]

\* variant: the handler answers 200 whatever the send returned
wakeup_response_always_ok(k) ==
    [k EXCEPT !.status = OK,
              !.message = [fmt |-> "Magic packet sent to {}", arg |-> k.mac]]

\* the handler's answer once wake_device has returned
wakeup_response(k) ==
    IF k.ret = "Ok"
    THEN [k EXCEPT !.status = OK,
                   !.message = [fmt |-> "Magic packet sent to {}", arg |-> k.mac]]
    ELSE [k EXCEPT !.status = INTERNAL_SERVER_ERROR,
                   !.message = [fmt |-> k.context, arg |-> <<>>]]

\* the send returns ret to its caller
returned(k, ret, context) ==
    LET r == [k EXCEPT !.pc = "done", !.ret = ret, !.context = context]
    IN  IF k.fn = "wakeup" THEN wakeup_response(r) ELSE r

\* variant: the socket stays open when the call returns
drop_leaking(socks, id) == socks

\* the socket goes out of scope when the call returns
drop(socks, id) == [socks EXCEPT ![id].open = FALSE]

\* variant: the datagram always goes to the default broadcast address
datagram_to_default(c, k) ==
    [by |-> c, socket |-> k.socket, to |-> DEFAULT_BROADCAST, payload |-> k.packet]

\* socket.send_to(&options.packet.0, &*options.broadcast_address)
datagram(c, k) ==
    [by |-> c, socket |-> k.socket, to |-> k.broadcast_address, payload |-> k.packet]

MacIdle ==
    /\ input = [kind |-> "none", val |-> <<>>]
    /\ op = "none"
    /\ result = None
    /\ text = NoText
    /\ prev = NoCall

InitSend ==
    /\ MacIdle
    /\ NoCli
    /\ call = [c \in Calls |-> IdleCall]
    /\ sockets = <<>>
    /\ wire = <<>>

\* wake_device(options) is called
WakeDevice(c) ==
    /\ call[c].pc = "idle"
    /\ \E o \in OptionsGiven :
          call' = [call EXCEPT ![c] =
                      [IdleCall EXCEPT !.fn = "wake_device", !.pc = "bind",
                                       !.packet = o.packet,
                                       !.broadcast_address = o.broadcast_address,
                                       !.bind_address = o.bind_address]]
    /\ UNCHANGED <<sockets, wire, macVars, cliVars>>

\* send_magic_packet_to_broadcast_address(packet, addr) is called
SendMagicPacket(c) ==
    /\ call[c].pc = "idle"
    /\ \E a \in ArgsGiven :
          call' = [call EXCEPT ![c] =
                      [IdleCall EXCEPT !.fn = "send_magic_packet", !.pc = "bind",
                                       !.packet = a.packet,
                                       !.broadcast_address = a.broadcast_address,
                                       !.bind_address = DEFAULT_BIND]]
    /\ UNCHANGED <<sockets, wire, macVars, cliVars>>

\* wake_machine: the packet of the machine's Mac is handed to wake_device
wake_machine(mac, bcast_addr, bind_addr) ==
    [IdleCall EXCEPT !.fn = "wake_machine", !.pc = "bind",
                     !.packet = create_magic_packet([kind |-> "mac", val |-> mac]).val,
                     !.broadcast_address = bcast_addr, !.bind_address = bind_addr]

\* the MAC arguments of `waker -n <mac>`: "01:23:45:67:89:AB",
\* "01:23:45:67:89", "0g"
MacArgs ==
    {<<"0", "1", ":", "2", "3", ":", "4", "5", ":", "6", "7", ":", "8", "9", ":", "A", "B">>,
     <<"0", "1", ":", "2", "3", ":", "4", "5", ":", "6", "7", ":", "8", "9">>,
     <<"0", "g">>}

\* the tool is run with the name-as-MAC flag: Mac::from_str(&name)? and
\* wake_machine
RunWithMac(c) ==
    /\ call[c].pc = "idle"
    /\ \E m \in MacArgs :
          call' = [call EXCEPT ![c] =
                  IF IsOk(from_str(m))
                  THEN [wake_machine(from_str(m).val, DEFAULT_BROADCAST, DEFAULT_BIND)
                            EXCEPT !.mac = m]
                  ELSE [IdleCall EXCEPT !.fn = "run", !.mac = m, !.pc = "done",
                                        !.ret = "Err",
                                        !.context = "Invalid MAC address"]]
    /\ UNCHANGED <<sockets, wire, macVars, cliVars>>

\* variant: a MAC that does not parse is replaced by the all-zero address
Wakeup_defaulting(c) ==
    /\ call[c].pc = "idle"
    /\ \E m \in RequestMacs :
          LET packet == create_magic_packet_defaulting([kind |-> "String", val |-> m])
              options == WakeOptions_new(packet.val)
          IN  call' = [call EXCEPT ![c] =
                  [IdleCall EXCEPT !.fn = "wakeup", !.mac = m, !.pc = "bind",
                            !.packet = options.packet,
                            !.broadcast_address = options.broadcast_address,
                            !.bind_address = options.bind_address]]
    /\ UNCHANGED <<sockets, wire, macVars, cliVars>>

\* POST /api/v1/wakeup arrives: the handler builds the packet, or answers 400
Wakeup(c) ==
    /\ call[c].pc = "idle"
    /\ \E m \in RequestMacs :
          LET packet == create_magic_packet([kind |-> "String", val |-> m])
              options == WakeOptions_new(packet.val)
          IN  call' = [call EXCEPT ![c] =
                  IF IsOk(packet)
                  THEN [IdleCall EXCEPT !.fn = "wakeup", !.mac = m, !.pc = "bind",
                            !.packet = options.packet,
                            !.broadcast_address = options.broadcast_address,
                            !.bind_address = options.bind_address]
                  ELSE [IdleCall EXCEPT !.fn = "wakeup", !.mac = m, !.pc = "done",
                            !.status = BAD_REQUEST,
                            !.message = error_to_string(packet)]]
    /\ UNCHANGED <<sockets, wire, macVars, cliVars>>

\* UdpSocket::bind(..).context("Failed to bind UDP socket")?
Bind(c) ==
    /\ call[c].pc = "bind"
    /\ \/ /\ sockets' = Append(sockets, [owner |-> c, open |-> TRUE,
                                         broadcast |-> FALSE,
                                         addr |-> call[c].bind_address])
          /\ call' = [call EXCEPT ![c].socket = Len(sockets) + 1,
                                  ![c].pc = "set_broadcast",
                                  ![c].trace = Append(@, "bind")]
       \/ /\ call' = [call EXCEPT ![c] =
                        returned([@ EXCEPT !.trace = Append(@, "bind")],
                                 "Err", "Failed to bind UDP socket")]
          /\ UNCHANGED sockets
    /\ UNCHANGED <<wire, macVars, cliVars>>

\* variant: a failure to enable broadcast is ignored
SetBroadcast_unchecked(c) ==
    /\ call[c].pc = "set_broadcast"
    /\ \/ sockets' = [sockets EXCEPT ![call[c].socket].broadcast = TRUE]
       \/ UNCHANGED sockets
    /\ call' = [call EXCEPT ![c].pc = "send_to",
                            ![c].trace = Append(@, "set_broadcast")]
    /\ UNCHANGED <<wire, macVars, cliVars>>

\* socket.set_broadcast(true).context("Failed to set socket to broadcast")?
SetBroadcast(c) ==
    /\ call[c].pc = "set_broadcast"
    /\ \/ /\ sockets' = [sockets EXCEPT ![call[c].socket].broadcast = TRUE]
          /\ call' = [call EXCEPT ![c].pc = "send_to",
                                  ![c].trace = Append(@, "set_broadcast")]
       \/ /\ sockets' = drop(sockets, call[c].socket)
          /\ call' = [call EXCEPT ![c] =
                        returned([@ EXCEPT !.trace = Append(@, "set_broadcast")],
                                 "Err", "Failed to set socket to broadcast")]
    /\ UNCHANGED <<wire, macVars, cliVars>>

\* socket.send_to(..).context("Failed to send magic packet")?; Ok(())
SendTo(c) ==
    /\ call[c].pc = "send_to"
    /\ \/ /\ wire' = Append(wire, datagram(c, call[c]))
          /\ call' = [call EXCEPT ![c] =
                        returned([@ EXCEPT !.trace = Append(@, "send_to")],
                                 "Ok", "")]
       \/ /\ UNCHANGED wire
          /\ call' = [call EXCEPT ![c] =
                        returned([@ EXCEPT !.trace = Append(@, "send_to")],
                                 "Err", "Failed to send magic packet")]
    /\ sockets' = drop(sockets, call[c].socket)
    /\ UNCHANGED <<macVars, cliVars>>

WakeDeviceCalled == \E c \in Calls : WakeDevice(c)
SendMagicPacketCalled == \E c \in Calls : SendMagicPacket(c)
WakeupRequested == \E c \in Calls : Wakeup(c)
RunWithMacStarted == \E c \in Calls : RunWithMac(c)
BindStep == \E c \in Calls : Bind(c)
SetBroadcastStep == \E c \in Calls : SetBroadcast(c)
SendToStep == \E c \in Calls : SendTo(c)

NextSend ==
    \/ WakeDeviceCalled
    \/ SendMagicPacketCalled
    \/ WakeupRequested
    \/ RunWithMacStarted
    \/ BindStep
    \/ SetBroadcastStep
    \/ SendToStep

SpecSend == InitSend /\ [][NextSend]_vars

\* the datagrams on the wire that call c sent
SentBy(c) == {i \in 1..Len(wire) : wire[i].by = c}

\* the number of times call c attempted to send
SendAttempts(c) ==
    Cardinality({i \in 1..Len(call[c].trace) : call[c].trace[i] = "send_to"})

SYSCALLS == <<"bind", "set_broadcast", "send_to">>

\* C12: a send call that returned Ok handed exactly one datagram to the
\* network; the datagram is addressed to the broadcast address the call was
\* given and its payload is, byte for byte, the 102-byte packet of the call.
C12_OkMeansOneDatagram ==
    \A c \in Calls :
        call[c].ret = "Ok" =>
            /\ Cardinality(SentBy(c)) = 1
            /\ \A i \in SentBy(c) :
                  /\ wire[i].to = call[c].broadcast_address
                  /\ wire[i].payload = call[c].packet
                  /\ Len(wire[i].payload) = HeaderLen + Repetitions * MacLen
                  /\ wire[i].payload \in Packets

C12_Witness ==
    \E c \in Calls :
        /\ call[c].fn = "wake_device"
        /\ call[c].ret = "Ok"
        /\ call[c].broadcast_address # DEFAULT_BROADCAST
        /\ call[c].packet = create_magic_packet_impl(MAC_BYTES)

\* C13: a send binds a socket, enables broadcast on it and sends one datagram,
\* in that order; when bind or the broadcast option fails the call returns that
\* error and no datagram of the call reaches the network; when the send fails
\* the call returns that error; a call never attempts more than one send.
C13_BindBroadcastSend ==
    \A c \in Calls :
        /\ call[c].trace = SubSeq(SYSCALLS, 1, Len(call[c].trace))
        /\ SendAttempts(c) <= 1
        /\ Cardinality(SentBy(c)) <= SendAttempts(c)
        /\ SentBy(c) # {} => sockets[call[c].socket].broadcast
        /\ call[c].pc = "done" /\ call[c].trace # <<>> =>
              /\ call[c].ret = "Err" <=> call[c].context # ""
              /\ call[c].context = "Failed to bind UDP socket" <=>
                    (call[c].trace = SubSeq(SYSCALLS, 1, 1) /\ call[c].socket = 0)
              /\ call[c].context = "Failed to set socket to broadcast" <=>
                    call[c].trace = SubSeq(SYSCALLS, 1, 2)
              /\ Len(call[c].trace) < 3 => SentBy(c) = {}
              /\ call[c].context = "Failed to send magic packet" <=>
                    (Len(call[c].trace) = 3 /\ SentBy(c) = {})
              /\ call[c].ret = "Ok" <=>
                    (Len(call[c].trace) = 3 /\ SentBy(c) # {})

C13_Witness ==
    \E c, d \in Calls :
        /\ call[c].context = "Failed to set socket to broadcast"
        /\ call[c].trace = <<"bind", "set_broadcast">>
        /\ call[d].context = "Failed to send magic packet"
        /\ wire = <<>>

\* C14: under any interleaving of concurrent sends, the socket a call uses was
\* created by that call and is held by no other call; every datagram carries
\* the packet of the call that sent it, on that call's socket; and once a call
\* has returned its socket is no longer open.
C14_SocketIsPrivate ==
    /\ \A c \in Calls :
          /\ call[c].socket # 0 =>
                /\ call[c].socket \in 1..Len(sockets)
                /\ sockets[call[c].socket].owner = c
                /\ \A d \in Calls \ {c} : call[d].socket # call[c].socket
          /\ call[c].pc = "done" =>
                \A s \in 1..Len(sockets) :
                    sockets[s].owner = c => ~sockets[s].open
          /\ call[c].pc \in {"set_broadcast", "send_to"} =>
                sockets[call[c].socket].open
    /\ \A i \in 1..Len(wire) :
          /\ wire[i].payload = call[wire[i].by].packet
          /\ wire[i].socket = call[wire[i].by].socket
          /\ wire[i].to = call[wire[i].by].broadcast_address

C14_Witness ==
    \E c, d \in Calls :
        /\ call[c].ret = "Ok"
        /\ call[d].pc = "send_to"
        /\ call[d].socket < call[c].socket
        /\ sockets[call[d].socket].open
        /\ call[c].packet # call[d].packet

\* C20: a POST /wakeup request gets exactly one of three answers: 400 when
\* its MAC does not parse; 500 when the MAC parses and the send fails; 200
\* with the message "Magic packet sent to " followed by the MAC exactly as the
\* request gave it when the MAC parses and the send succeeds.
C20_WakeupAnswers ==
    \A c \in Calls :
        (call[c].fn = "wakeup" /\ call[c].pc = "done") =>
            /\ call[c].status \in {OK, BAD_REQUEST, INTERNAL_SERVER_ERROR}
            /\ call[c].status = BAD_REQUEST <=> ~WellFormed(trim(call[c].mac))
            /\ call[c].status = BAD_REQUEST => call[c].trace = <<>>
            /\ call[c].status = INTERNAL_SERVER_ERROR <=>
                  (WellFormed(trim(call[c].mac)) /\ SentBy(c) = {})
            /\ call[c].status = OK <=>
                  (WellFormed(trim(call[c].mac)) /\ Cardinality(SentBy(c)) = 1)
            /\ call[c].status = OK =>
                  call[c].message =
                      [fmt |-> "Magic packet sent to {}", arg |-> call[c].mac]

C20_Witness ==
    \E c, d \in Calls :
        /\ call[c].status = OK
        /\ call[c].mac[1] = " "
        /\ call[d].status = INTERNAL_SERVER_ERROR
        /\ call[d].context = "Failed to bind UDP socket"

(***************************************************************************)
(* The machine list of the command line tool.  disk is the saved list,     *)
(* machines the list the running process loaded from it, cli the state of  *)
(* the running command: pc the prompt it waits at, found what the resolver *)
(* returned (a position of machines, 0 for None), name and pending what    *)
(* the user entered, out the last message printed, ret what the command    *)
(* returned.  sim gives the similarity of every two names, in twentieths;  *)
(* the library that computes it is outside the repository, the model takes *)
(* any symmetric table in which a name scores ScoreMax with itself and     *)
(* less with every other name.                                             *)
(***************************************************************************)
MaxMachines == 3
MaxNames == 2

\* the names of machines; the third one reads as a MAC address
Names == {"alpha", "alphb", "01:23:45:67:89:AB"}

\* the characters of a name
NameText(name) ==
    CASE name = "alpha" -> <<"a", "l", "p", "h", "a">>
      [] name = "alphb" -> <<"a", "l", "p", "h", "b">>
      [] name = "01:23:45:67:89:AB" -> MAC_STRING

\* 1.0, and the 0.9 of the duplicate check
ScoreMax == 20
DUPLICATE_SCORE == 18

\* the scores of two different names: 0.0, 0.9 and 0.95
LowerScores == {0, 18, 19}

NamePairs == {p \in SUBSET Names : Cardinality(p) = 2}

Similarities ==
    {[a \in Names |-> [b \in Names |-> IF a = b THEN ScoreMax ELSE f[{a, b}]]] :
        f \in [NamePairs -> LowerScores]}

\* handy::pattern::string_similarity
string_similarity(a, b) == sim[a][b]

\* handy::pattern::is_close_to_upper_bound: the score is the upper bound, up
\* to a tolerance smaller than the step between two scores
is_close_to_upper_bound(score) == ScoreMax - score < 1

\* the MAC texts a user types, and the Mac of a stored record
MacTexts == {MAC_STRING, MAC_STRING_DASHED \o <<" ">>}
StoredMac(i) == IF i % 2 = 1 THEN <<205, 239, 0, 255, 154, 9>> ELSE MAC_BYTES

RECURSIVE NameLists(_)
NameLists(n) ==
    IF n = 0 THEN {<<>>}
    ELSE NameLists(n - 1)
         \cup {Append(l, a) : l \in {k \in NameLists(n - 1) : Len(k) = n - 1},
                              a \in Names}

\* the lists a config file can hold
MachineLists ==
    {[i \in 1..Len(l) |-> [name |-> l[i], mac |-> StoredMac(i)]] :
        l \in NameLists(MaxMachines)}

NoMachine == [name |-> "", mac |-> <<>>]

StartCli ==
    [pc |-> "start", cmd |-> "none", query |-> "", found |-> 0, name |-> "",
     pending |-> NoMachine, out |-> "", ret |-> "none",
     name_as_mac |-> FALSE, arg |-> <<>>, wake |-> <<>>,
     index |-> 0, indexes |-> <<>>, names |-> <<>>, answer |-> ""]

RECURSIVE best_match_break_first(_, _, _, _, _)
\* variant: the loop leaves before it records the close record
best_match_break_first(ms, name, index, best_score, best_match) ==
    IF index > Len(ms) THEN best_match
    ELSE LET score == string_similarity(ms[index].name, name) IN
         IF is_close_to_upper_bound(score) THEN best_match
         ELSE IF score > best_score
              THEN best_match_break_first(ms, name, index + 1, score, index)
              ELSE best_match_break_first(ms, name, index + 1, best_score, best_match)

RECURSIVE best_match_no_update(_, _, _, _, _)
\* variant: best_score is never updated
best_match_no_update(ms, name, index, best_score, best_match) ==
    IF index > Len(ms) THEN best_match
    ELSE LET score == string_similarity(ms[index].name, name)
             found == IF score > best_score THEN index ELSE best_match
         IN  IF is_close_to_upper_bound(score) THEN found
             ELSE best_match_no_update(ms, name, index + 1, best_score, found)

RECURSIVE best_match_last_tie(_, _, _, _, _)
\* variant: a record that equals the best score replaces it
best_match_last_tie(ms, name, index, best_score, best_match) ==
    IF index > Len(ms) THEN best_match
    ELSE LET score == string_similarity(ms[index].name, name)
             better == score >= best_score /\ score > 0
             found == IF better THEN index ELSE best_match
         IN  IF is_close_to_upper_bound(score) THEN found
             ELSE best_match_last_tie(ms, name, index + 1,
                                      IF better THEN score ELSE best_score, found)

RECURSIVE best_match_loop(_, _, _, _, _)
\* the loop of find_best_machine_index and of find_best_machine, from the
\* record at position index on
best_match_loop(ms, name, index, best_score, best_match) ==
    IF index > Len(ms) THEN best_match
    ELSE LET score == string_similarity(ms[index].name, name)
             better == score > best_score
             found == IF better THEN index ELSE best_match
         IN  IF is_close_to_upper_bound(score) THEN found
             ELSE best_match_loop(ms, name, index + 1,
                                  IF better THEN score ELSE best_score, found)

\* variant: the scan starts at the second record
find_best_machine_index_from_second(ms, name) == best_match_loop(ms, name, 2, 0, 0)

find_best_machine_index(ms, name) == best_match_loop(ms, name, 1, 0, 0)

\* variant: best_score starts below zero
find_best_machine_from_below(ms, name) == best_match_loop(ms, name, 1, -1, 0)

\* variant: see best_match_break_first
find_best_machine_break_first(ms, name) == best_match_break_first(ms, name, 1, 0, 0)

\* variant: see best_match_no_update
find_best_machine_no_update(ms, name) == best_match_no_update(ms, name, 1, 0, 0)

\* variant: see best_match_last_tie
find_best_machine_last_tie(ms, name) == best_match_last_tie(ms, name, 1, 0, 0)

find_best_machine(ms, name) == best_match_loop(ms, name, 1, 0, 0)

\* variant: a similarity of exactly 0.9 is a duplicate too
is_duplicate_inclusive(ms, name) ==
    \E i \in 1..Len(ms) : string_similarity(ms[i].name, name) >= DUPLICATE_SCORE

\* self.machines.iter().any(|m| string_similarity(&m.name, &name) > 0.9)
is_duplicate(ms, name) ==
    \E i \in 1..Len(ms) : string_similarity(ms[i].name, name) > DUPLICATE_SCORE

InitCli ==
    /\ MacIdle
    /\ call = [c \in Calls |-> IdleCall]
    /\ sockets = <<>>
    /\ wire = <<>>
    /\ sim \in Similarities
    /\ disk \in MachineLists
    /\ machines = disk
    /\ cli = StartCli

\* the command resolves a name to a record
FindBestMachine ==
    /\ cli.pc = "start"
    /\ \E name \in Names :
          cli' = [cli EXCEPT !.pc = "exit", !.cmd = "find_best_machine",
                             !.query = name,
                             !.found = find_best_machine(machines, name),
                             !.ret = "Ok"]
    /\ UNCHANGED <<sim, disk, machines, macVars, netVars>>

\* the command resolves a name to a position
FindBestMachineIndex ==
    /\ cli.pc = "start"
    /\ \E name \in Names :
          cli' = [cli EXCEPT !.pc = "exit", !.cmd = "find_best_machine_index",
                             !.query = name,
                             !.found = find_best_machine_index(machines, name),
                             !.ret = "Ok"]
    /\ UNCHANGED <<sim, disk, machines, macVars, netVars>>

\* Command::Add: add_machine calls prompt_machine(None), which asks the name
AddMachine ==
    /\ cli.pc = "start"
    /\ Len(machines) < MaxMachines
    /\ cli' = [cli EXCEPT !.pc = "name_prompt", !.cmd = "add"]
    /\ UNCHANGED <<sim, disk, machines, macVars, netVars>>

\* the command lines `waker remove <name>...`
RemoveArgs == UNION {[1..n -> Names] : n \in 1..MaxNames}

\* iter().position(|m| m == machine): the first record equal to the chosen one
position(ms, machine) ==
    CHOOSE i \in 1..Len(ms) :
        /\ ms[i] = machine
        /\ \A j \in 1..(i - 1) : ms[j] # machine

RECURSIVE positions(_, _, _)
\* prompt_for_machines_index: the position of every chosen record, in the
\* order of the list
positions(ms, chosen, i) ==
    IF i > Len(ms) THEN <<>>
    ELSE (IF i \in chosen THEN <<position(ms, ms[i])>> ELSE <<>>)
            \o positions(ms, chosen, i + 1)

RECURSIVE resolve_names(_, _, _)
\* names.iter().filter_map(|name| self.find_best_machine_index(name)).collect()
resolve_names(ms, names, i) ==
    IF i > Len(names) THEN <<>>
    ELSE LET index == find_best_machine_index(ms, names[i]) IN
         (IF index = 0 THEN <<>> ELSE <<index>>) \o resolve_names(ms, names, i + 1)

RECURSIVE sort_unstable(_)
\* the indexes in ascending order, equal ones kept
sort_unstable(seq) ==
    IF seq = <<>> THEN <<>>
    ELSE LET least == CHOOSE i \in 1..Len(seq) : \A j \in 1..Len(seq) : seq[i] <= seq[j]
         IN <<seq[least]>>
               \o sort_unstable([k \in 1..(Len(seq) - 1) |->
                                    IF k < least THEN seq[k] ELSE seq[k + 1]])

\* variant: the last record moves into the hole (Vec::swap_remove)
swap_remove(ms, i) ==
    IF i = Len(ms) THEN SubSeq(ms, 1, i - 1)
    ELSE [k \in 1..(Len(ms) - 1) |-> IF k = i THEN ms[Len(ms)] ELSE ms[k]]

\* Vec::remove: the later records move down by one
remove(ms, i) == SubSeq(ms, 1, i - 1) \o SubSeq(ms, i + 1, Len(ms))

RECURSIVE remove_rev(_, _, _)
\* for index in indexes_to_remove.iter().rev() { self.machines.remove(*index) }
\* Vec::remove panics when the index is past the end
remove_rev(ms, indexes, k) ==
    IF k = 0 THEN [machines |-> ms, panic |-> FALSE]
    ELSE IF indexes[k] > Len(ms) THEN [machines |-> ms, panic |-> TRUE]
    ELSE remove_rev(remove(ms, indexes[k]), indexes, k - 1)

\* variant: only an interrupt stops the change
confirmed_unless_interrupted(answer) == answer # "cancel"

\* if Confirm::new(..).with_default(false).prompt()? { .. }
confirmed(answer) == answer = "yes"

\* what a confirmed command does to the list in memory
apply_change(k, ms) ==
    CASE k.cmd = "edit" ->
            [machines |-> [ms EXCEPT ![k.index] = k.pending], panic |-> FALSE]
      [] k.cmd = "remove" ->
            remove_rev(ms, sort_unstable(k.indexes), Len(k.indexes))
      [] OTHER ->
            [machines |-> Append(ms, k.pending), panic |-> FALSE]

\* Command::Edit: edit_machine picks the record by name or from a Select
\* prompt, then calls prompt_machine(Some(record))
EditMachine ==
    /\ cli.pc = "start"
    /\ \/ /\ machines = <<>>
          /\ cli' = [cli EXCEPT !.pc = "exit", !.cmd = "edit", !.ret = "Ok",
                                !.out = "No machines found in config file"]
       \/ /\ machines # <<>>
          /\ \E name \in Names :
                LET index == find_best_machine_index(machines, name) IN
                cli' = IF index = 0
                       THEN [cli EXCEPT !.pc = "exit", !.cmd = "edit", !.ret = "Ok",
                                        !.out = "No machine found with name"]
                       ELSE [cli EXCEPT !.pc = "name_prompt", !.cmd = "edit",
                                        !.index = index]
       \/ /\ machines # <<>>
          /\ \/ cli' = [cli EXCEPT !.pc = "exit", !.cmd = "edit", !.ret = "Ok",
                                   !.answer = "cancel", !.out = "No machine selected"]
             \/ \E i \in 1..Len(machines) :
                   cli' = [cli EXCEPT !.pc = "name_prompt", !.cmd = "edit",
                                      !.index = position(machines, machines[i])]
    /\ UNCHANGED <<sim, disk, machines, macVars, netVars>>

\* Command::Remove: remove_machines resolves the given names or asks a
\* MultiSelect prompt, then asks for confirmation
RemoveMachines ==
    /\ cli.pc = "start"
    /\ \/ /\ machines = <<>>
          /\ cli' = [cli EXCEPT !.pc = "exit", !.cmd = "remove", !.ret = "Ok",
                                !.out = "No machines found in config file"]
       \/ /\ machines # <<>>
          /\ \/ \E names \in RemoveArgs :
                   LET indexes == resolve_names(machines, names, 1) IN
                   cli' = IF indexes = <<>>
                          THEN [cli EXCEPT !.pc = "exit", !.cmd = "remove", !.ret = "Ok",
                                           !.names = names,
                                           !.out = "No machines selected or found to remove"]
                          ELSE [cli EXCEPT !.pc = "confirm", !.cmd = "remove",
                                           !.names = names, !.indexes = indexes]
             \/ cli' = [cli EXCEPT !.pc = "exit", !.cmd = "remove", !.ret = "Ok",
                                   !.answer = "cancel",
                                   !.out = "No machines selected or found to remove"]
             \/ \E chosen \in SUBSET (1..Len(machines)) :
                   LET indexes == positions(machines, chosen, 1) IN
                   cli' = IF indexes = <<>>
                          THEN [cli EXCEPT !.pc = "exit", !.cmd = "remove", !.ret = "Ok",
                                           !.out = "No machines selected or found to remove"]
                          ELSE [cli EXCEPT !.pc = "confirm", !.cmd = "remove",
                                           !.indexes = indexes]
    /\ UNCHANGED <<sim, disk, machines, macVars, netVars>>

\* the name prompt is answered (validate_text: not blank) or cancelled; when
\* no record is being edited, a name similar to a stored one ends the command
NamePrompt ==
    /\ cli.pc = "name_prompt"
    /\ \/ cli' = [cli EXCEPT !.pc = "exit", !.ret = "Ok", !.answer = "cancel"]
       \/ \E name \in Names :
             cli' = IF is_duplicate(machines, name) /\ cli.index = 0
                    THEN [cli EXCEPT !.pc = "exit", !.name = name, !.ret = "Ok",
                                     !.out = "Machine already exists"]
                    ELSE [cli EXCEPT !.pc = "mac_prompt", !.name = name]
    /\ UNCHANGED <<sim, disk, machines, macVars, netVars>>

\* the MAC prompt is answered (validate_mac: Mac::from_str succeeds) or
\* cancelled; prompt_machine returns the machine, and edit_machine stops
\* when it equals the record being edited
MacPrompt ==
    /\ cli.pc = "mac_prompt"
    /\ \/ cli' = [cli EXCEPT !.pc = "exit", !.ret = "Ok", !.answer = "cancel"]
       \/ \E mac \in {t \in MacTexts : IsOk(from_str(t))} :
             LET new_machine == [name |-> cli.name, mac |-> from_str(mac).val] IN
             cli' = IF cli.index # 0 /\ new_machine = machines[cli.index]
                    THEN [cli EXCEPT !.pc = "exit", !.ret = "Ok", !.pending = new_machine,
                                     !.out = "No changes made"]
                    ELSE [cli EXCEPT !.pc = "confirm", !.pending = new_machine]
    /\ UNCHANGED <<sim, disk, machines, macVars, netVars>>

\* the confirmation prompt: an interrupt is an error, no leaves everything as
\* it was, yes changes the list and saves it (the write may fail; a removal
\* may panic, and one that removed nothing is not saved)
ConfirmPrompt ==
    /\ cli.pc = "confirm"
    /\ \E answer \in {"yes", "no", "cancel"} :
          IF answer = "cancel"
          THEN /\ cli' = [cli EXCEPT !.pc = "exit", !.ret = "Err", !.answer = answer]
               /\ UNCHANGED <<disk, machines>>
          ELSE IF ~confirmed(answer)
          THEN /\ cli' = [cli EXCEPT !.pc = "exit", !.ret = "Ok", !.answer = answer,
                                     !.out = IF cli.cmd = "edit"
                                             THEN "Machine not edited" ELSE ""]
               /\ UNCHANGED <<disk, machines>>
          ELSE LET changed == apply_change(cli, machines) IN
               /\ machines' = changed.machines
               /\ IF changed.panic
                  THEN /\ disk' = disk
                       /\ cli' = [cli EXCEPT !.pc = "exit", !.ret = "panic",
                                             !.answer = answer]
                  ELSE IF cli.cmd = "remove" /\ Len(changed.machines) = Len(machines)
                  THEN /\ disk' = disk
                       /\ cli' = [cli EXCEPT !.pc = "exit", !.ret = "Ok", !.answer = answer,
                                             !.out = "No machines removed"]
                  ELSE \E saved \in BOOLEAN :
                          /\ disk' = IF saved THEN changed.machines ELSE disk
                          /\ cli' = [cli EXCEPT
                                        !.pc = "exit", !.answer = answer,
                                        !.ret = IF saved THEN "Ok" ELSE "Err",
                                        !.out = IF ~saved THEN ""
                                                ELSE CASE cli.cmd = "edit" ->
                                                            "Machine edited successfully"
                                                       [] cli.cmd = "remove" ->
                                                            "Removed machines"
                                                       [] OTHER ->
                                                            "Machine added successfully"]
    /\ UNCHANGED <<sim, macVars, netVars>>

\* the process has ended; the tool is run again and loads the saved list
\* (the runs are followed up to the first one that wakes a machine)
RunAgain ==
    /\ cli.pc = "exit"
    /\ call[1].pc = "idle"
    /\ machines' = disk
    /\ cli' = StartCli
    /\ UNCHANGED <<sim, disk, macVars, netVars>>

\* the command lines `waker <name>` and `waker -n <mac>`, with and without
\* address overrides
RunArgs ==
    {[name_as_mac |-> FALSE, name |-> n, arg |-> NameText(n)] : n \in Names}
    \cup {[name_as_mac |-> TRUE, name |-> "", arg |-> t] : t \in RequestMacs}
    \cup {[name_as_mac |-> TRUE, name |-> "alpha", arg |-> NameText("alpha")]}

RunAddrs ==
    {[broadcast_address |-> DEFAULT_BROADCAST, bind_address |-> DEFAULT_BIND],
     [broadcast_address |-> "192.168.0.255:9", bind_address |-> "192.168.0.10:0"]}

\* variant: the argument is parsed only when it is to be used as the MAC
run_name_lazy(k, a, ms) ==
    LET started == [k EXCEPT !.cmd = "run", !.name_as_mac = a.name_as_mac,
                             !.arg = a.arg, !.query = a.name]
    IN  IF a.name_as_mac
        THEN IF IsOk(from_str(a.arg))
             THEN [started EXCEPT !.pc = "waking", !.wake = from_str(a.arg).val]
             ELSE [started EXCEPT !.pc = "exit", !.ret = "Err",
                                  !.out = "Invalid MAC address"]
        ELSE IF ms = <<>>
        THEN [started EXCEPT !.pc = "exit", !.ret = "Ok",
                             !.out = "No machines found in config file"]
        ELSE IF find_best_machine(ms, a.name) = 0
        THEN [started EXCEPT !.pc = "exit", !.ret = "Ok",
                             !.out = "No machine found with name"]
        ELSE [started EXCEPT !.pc = "waking",
                             !.found = find_best_machine(ms, a.name),
                             !.wake = ms[find_best_machine(ms, a.name)].mac]

\* run, Some(name): default_machine is built first, with
\* Mac::from_str(&name).context("Invalid MAC address")?
run_name(k, a, ms) ==
    LET started == [k EXCEPT !.cmd = "run", !.name_as_mac = a.name_as_mac,
                             !.arg = a.arg, !.query = a.name]
    IN  IF ~IsOk(from_str(a.arg))
        THEN [started EXCEPT !.pc = "exit", !.ret = "Err",
                             !.out = "Invalid MAC address"]
        ELSE IF a.name_as_mac
        THEN [started EXCEPT !.pc = "waking", !.wake = from_str(a.arg).val]
        ELSE IF ms = <<>>
        THEN [started EXCEPT !.pc = "exit", !.ret = "Ok",
                             !.out = "No machines found in config file"]
        ELSE IF find_best_machine(ms, a.name) = 0
        THEN [started EXCEPT !.pc = "exit", !.ret = "Ok",
                             !.out = "No machine found with name"]
        ELSE [started EXCEPT !.pc = "waking",
                             !.found = find_best_machine(ms, a.name),
                             !.wake = ms[find_best_machine(ms, a.name)].mac]

\* the tool is run with a name or MAC argument
Run ==
    /\ cli.pc = "start"
    /\ call[1].pc = "idle"
    /\ \E a \in RunArgs, o \in RunAddrs :
          /\ cli' = run_name(cli, a, machines)
          /\ call' = IF cli'.pc = "waking"
                     THEN [call EXCEPT ![1] = wake_machine(cli'.wake,
                                                 o.broadcast_address, o.bind_address)]
                     ELSE call
    /\ UNCHANGED <<sockets, wire, sim, disk, machines, macVars>>

\* wake_device has returned to wake_machine, and run returns
RunReturns ==
    /\ cli.pc = "waking"
    /\ call[1].pc = "done"
    /\ cli' = [cli EXCEPT !.pc = "exit", !.ret = call[1].ret,
                          !.out = IF call[1].ret = "Ok" THEN ""
                                  ELSE "Failed to wake machine"]
    /\ UNCHANGED <<sim, disk, machines, macVars, netVars>>

NextCli ==
    \/ FindBestMachine
    \/ FindBestMachineIndex
    \/ AddMachine
    \/ NamePrompt
    \/ MacPrompt
    \/ ConfirmPrompt
    \/ RunAgain
    \/ Run
    \/ BindStep
    \/ SetBroadcastStep
    \/ SendToStep
    \/ RunReturns

SpecCli == InitCli /\ [][NextCli]_vars

\* the similarity tables in which only "alpha" and "alphb" resemble each other
ListSimilarities ==
    {t \in Similarities :
        \A p \in NamePairs :
            p # {"alpha", "alphb"} => \A a \in p : \A b \in p \ {a} : t[a][b] = 0}

\* the tool starts with no config file: load() gives the empty list
InitList ==
    /\ MacIdle
    /\ call = [c \in Calls |-> IdleCall]
    /\ sockets = <<>>
    /\ wire = <<>>
    /\ sim \in ListSimilarities
    /\ disk = <<>>
    /\ machines = disk
    /\ cli = StartCli

\* runs of `waker add`, `waker edit` and `waker remove`, one after another
NextList ==
    \/ AddMachine
    \/ EditMachine
    \/ RemoveMachines
    \/ NamePrompt
    \/ MacPrompt
    \/ ConfirmPrompt
    \/ RunAgain

SpecList == InitList /\ [][NextList]_vars

\* the resolver has returned
Resolved == cli.cmd \in {"find_best_machine", "find_best_machine_index"}

\* the score of the record at position i against the query
ScoreAt(i) == sim[machines[i].name][cli.query]

\* the positions the scan visits: up to the first record close to the upper
\* bound, all of them when there is none
Scanned ==
    {i \in 1..Len(machines) :
        \A j \in 1..(i - 1) : ~is_close_to_upper_bound(ScoreAt(j))}

\* C15: the resolver returns None exactly when no record it scanned has a
\* strictly positive score; it returns None for the empty list, and it never
\* returns a record whose score is 0 or less.
C15_NoneIffNoPositiveScore ==
    Resolved =>
        /\ cli.found = 0 <=> \A i \in Scanned : ScoreAt(i) <= 0
        /\ machines = <<>> => cli.found = 0
        /\ cli.found # 0 => cli.found \in 1..Len(machines) /\ ScoreAt(cli.found) > 0

C15_Witness ==
    /\ Resolved
    /\ cli.found = 0
    /\ Len(machines) = 2
    /\ machines[1].name # machines[2].name

\* C16: the record the resolver returns has the highest score of all records
\* of the list, and of the records that share that score it is the first in
\* stored order.
C16_HighestScoreFirstWins ==
    (Resolved /\ cli.found # 0) =>
        /\ \A i \in 1..Len(machines) : ScoreAt(i) <= ScoreAt(cli.found)
        /\ \A i \in 1..(cli.found - 1) : ScoreAt(i) < ScoreAt(cli.found)

C16_Witness ==
    /\ Resolved
    /\ Len(machines) = 3
    /\ cli.found = 2
    /\ ScoreAt(1) = 18
    /\ ScoreAt(2) = 19
    /\ ScoreAt(3) = 19

RECURSIVE ScanToCompletion(_, _, _)
\* the same scan without the early exit, from position i on
ScanToCompletion(i, best_score, best_match) ==
    IF i > Len(machines) THEN best_match
    ELSE IF ScoreAt(i) > best_score
         THEN ScanToCompletion(i + 1, ScoreAt(i), i)
         ELSE ScanToCompletion(i + 1, best_score, best_match)

\* C17: the early exit does not change the result: for every list and query
\* the resolver returns what the same scan returns when run to completion.
C17_EarlyExitSameResult ==
    Resolved => cli.found = ScanToCompletion(1, 0, 0)

C17_Witness ==
    /\ Resolved
    /\ Len(machines) = 3
    /\ cli.found = 2
    /\ is_close_to_upper_bound(ScoreAt(2))
    /\ ScoreAt(1) = 19
    /\ ScoreAt(3) = ScoreAt(2)

\* C18: when some record's name equals the query, the resolver returns a
\* record whose name equals the query, whatever near matches precede or
\* follow it (of alpha, alphb the query alpha gives alpha).
C18_ExactNameWins ==
    (Resolved /\ \E i \in 1..Len(machines) : machines[i].name = cli.query) =>
        /\ cli.found # 0
        /\ machines[cli.found].name = cli.query

C18_Witness ==
    /\ Resolved
    /\ Len(machines) = 3
    /\ machines[1].name = "alphb"
    /\ machines[2].name = "alpha"
    /\ cli.query = "alpha"
    /\ ScoreAt(1) = 19
    /\ ScoreAt(3) = 19
    /\ cli.found = 2

\* C19: Add rejects the name it is given as a duplicate, leaving the list as
\* it was and saving nothing, exactly when some stored record's name has a
\* similarity strictly greater than 0.9 with it; with a similarity of exactly
\* 0.9 or less it goes on to ask the MAC address.
C19_DuplicateAboveNineTenths ==
    [][(cli.pc = "name_prompt" /\ cli.cmd = "add" /\ cli'.name # "") =>
          /\ (\E i \in 1..Len(machines) :
                  sim[machines[i].name][cli'.name] > DUPLICATE_SCORE)
                => /\ cli'.pc = "exit"
                   /\ cli'.out = "Machine already exists"
                   /\ machines' = machines
                   /\ disk' = disk
          /\ (\A i \in 1..Len(machines) :
                  sim[machines[i].name][cli'.name] <= DUPLICATE_SCORE)
                => /\ cli'.pc = "mac_prompt"
                   /\ cli'.out = ""]_vars

C19_Witness ==
    /\ cli.cmd = "add"
    /\ cli.out = "Machine already exists"
    /\ Len(machines) = 2
    /\ sim[machines[1].name][cli.name] = 18
    /\ sim[machines[2].name][cli.name] = 19
    /\ machines = disk

\* C25: leading and trailing whitespace never affects parsing: from_str(s)
\* and from_str(trim(s)) return the same result, the same bytes on success and
\* the same error with the same payload on failure.
C25_WhitespaceIsIgnored ==
    op = "from_str" => result = from_str(trim(input.val))

C25_Witness ==
    /\ op = "from_str"
    /\ input.val # <<>>
    /\ input.val[1] = " "
    /\ input.val[Len(input.val)] = "TAB"
    /\ result.tag = "InvalidMacAddress"
    /\ result.val = trim(input.val)

\* C29: round trip Mac -> string -> Mac: parsing the lowercase (Display,
\* LowerHex) rendering of a Mac and parsing its uppercase (UpperHex) rendering
\* both succeed and both give the bytes of the Mac again.
C29_FormatThenParse ==
    text.fmt # "none" =>
        /\ from_str(text.val) = Ok(result.val)
        /\ from_str(Display_fmt(result.val)) = Ok(result.val)
        /\ from_str(LowerHex_fmt(result.val)) = Ok(result.val)
        /\ from_str(UpperHex_fmt(result.val)) = Ok(result.val)

C29_Witness ==
    /\ op = "try_from"
    /\ text.fmt = "UpperHex"
    /\ result.val = <<16, 32, 64, 128, 127, 254>>
    /\ from_str(text.val) = Ok(<<16, 32, 64, 128, 127, 254>>)

\* every character of the model
AllChars ==
    {DecDigits[i] : i \in 1..10} \cup {LowerAF[i] : i \in 1..6}
    \cup {UpperAF[i] : i \in 1..6} \cup {OtherChars[i] : i \in 1..Len(OtherChars)}

\* the byte of the digit pair c1 c2 is 16*hi + lo, and nothing is lost
DigitPairAsSpecified(c1, c2) ==
    LET hi == DigitValue(c1)
        lo == DigitValue(c2)
    IN  /\ byte_of_pair(c1, c2) = Ok(16 * hi + lo)
        /\ 16 * hi + lo \in 0..255
        /\ shl_u8(hi, 4) = hi * 16
        /\ bitor(hi * 16, lo) = hi * 16 + lo

\* C30: hex_val(c) is the value 0..15 of c for exactly the characters 0-9, a-f
\* and A-F (a/A is 10, f/F is 15) and InvalidByteInMac(c) for every other
\* character; the parser combines a digit pair as (hi << 4) | lo = 16*hi + lo,
\* which lies in 0..255, and the 8-bit shift loses no bit.
C30_HexValAndDigitPair ==
    op = "from_str" =>
        /\ \A c \in AllChars :
              IF c \in HexDigitChars
              THEN /\ IsOk(hex_val(c))
                   /\ hex_val(c).val = DigitValue(c)
                   /\ hex_val(c).val \in 0..15
              ELSE /\ hex_val(c).tag = "InvalidByteInMac"
                   /\ hex_val(c).val = <<c>>
        /\ hex_val("a").val = 10 /\ hex_val("A").val = 10
        /\ hex_val("f").val = 15 /\ hex_val("F").val = 15
        /\ \A i \in 1..Len(input.val), j \in 1..Len(input.val) :
              (/\ j \in {i, i + 1}
               /\ input.val[i] \in HexDigitChars
               /\ input.val[j] \in HexDigitChars) =>
                  DigitPairAsSpecified(input.val[i], input.val[j])
        /\ input.val = MAC_STRING =>
              \A c1 \in HexDigitChars, c2 \in HexDigitChars :
                  DigitPairAsSpecified(c1, c2)
        /\ IsOk(result) =>
              \A k \in 1..6 :
                  result.val[k] = 16 * DigitValue(trim(input.val)[3 * k - 2])
                                  + DigitValue(trim(input.val)[3 * k - 1])

C30_Witness ==
    /\ op = "from_str"
    /\ IsOk(result)
    /\ result.val[4] = 255
    /\ trim(input.val)[10] = "F"
    /\ trim(input.val)[11] = "f"

\* the run has got past the interpretation of its argument
Ran == cli.cmd = "run" /\ cli.pc # "start"

\* C21: the name-as-MAC flag alone selects the interpretation of the
\* argument: without the flag the argument is resolved through the alias
\* resolver against the stored machines and the resolved record's MAC is
\* woken, whether or not the argument itself parses as a MAC address; with the
\* flag the argument is parsed as a MAC and woken without consulting the
\* stored machines.
C21_FlagSelectsInterpretation ==
    Ran =>
        /\ ~cli.name_as_mac =>
              LET best == ScanToCompletion(1, 0, 0)
              IN  IF best = 0
                  THEN cli.pc = "exit" /\ cli.ret = "Ok" /\ cli.wake = <<>>
                  ELSE /\ cli.wake = machines[best].mac
                       /\ call[1].packet =
                              create_magic_packet_impl(machines[best].mac)
        /\ cli.name_as_mac =>
              IF WellFormed(trim(cli.arg))
              THEN /\ cli.wake = DigitBytes(trim(cli.arg))
                   /\ call[1].packet = create_magic_packet_impl(cli.wake)
              ELSE cli.pc = "exit" /\ cli.ret = "Err" /\ cli.wake = <<>>

TakesText(c) == call[c].fn \in {"wakeup", "run", "wake_machine"}

\* C27: no magic packet is ever sent for an invalid MAC: a POST /wakeup whose
\* MAC does not parse is answered 400 without a socket being bound or a
\* datagram sent, and a run of the tool with the name-as-MAC flag whose
\* argument does not parse fails without a datagram sent.
C27_NothingSentForInvalidMac ==
    /\ \A c \in Calls :
          (TakesText(c) /\ ~WellFormed(trim(call[c].mac))) =>
              /\ call[c].pc = "done"
              /\ call[c].trace = <<>>
              /\ call[c].socket = 0
              /\ \A s \in 1..Len(sockets) : sockets[s].owner # c
              /\ SentBy(c) = {}
              /\ call[c].fn = "wakeup" => call[c].status = BAD_REQUEST
              /\ call[c].fn # "wakeup" => call[c].ret = "Err"
    /\ \A i \in 1..Len(wire) :
          TakesText(wire[i].by) =>
              wire[i].payload =
                  create_magic_packet_impl(DigitBytes(trim(call[wire[i].by].mac)))

C27_Witness ==
    \E c, d \in Calls :
        /\ call[c].fn = "wakeup"
        /\ call[c].status = BAD_REQUEST
        /\ call[d].fn = "run"
        /\ call[d].ret = "Err"
        /\ call[d].mac = <<"0", "g">>
        /\ wire = <<>>

\* ---- the machine list under Add, Edit and Remove ----

\* the prompt of a confirmation has just been answered with yes
Confirmed == cli.pc = "confirm" /\ cli'.answer = "yes"

\* the positions of the list that the given names resolve to
ResolvedPositions ==
    {find_best_machine_index(machines, cli.names[i]) : i \in 1..Len(cli.names)} \ {0}

RECURSIVE Survivors(_, _, _)
\* the records of ms from position i on whose positions are not in gone
Survivors(ms, gone, i) ==
    IF i > Len(ms) THEN <<>>
    ELSE (IF i \in gone THEN <<>> ELSE <<ms[i]>>) \o Survivors(ms, gone, i + 1)

\* some strictly increasing choice of positions of b spells a
IsSubsequence(a, b) ==
    \E gone \in SUBSET (1..Len(b)) : a = Survivors(b, gone, 1)

\* C22: a confirmed Remove given a list of names removes exactly the records
\* that the names resolve to through find_best_machine_index, each once (also
\* when two names resolve to the same record), keeps every other record, and
\* never indexes past the end of the collection.
C22_RemoveExactlyResolved ==
    [][(Confirmed /\ cli.cmd = "remove" /\ cli.names # <<>>) =>
          /\ cli'.ret # "panic"
          /\ machines' = Survivors(machines, ResolvedPositions, 1)]_vars

\* C23: name uniqueness is an invariant of the machine collection: starting
\* from the empty collection, after any sequence of Add, Edit and Remove no
\* two distinct records have names whose similarity exceeds 0.9.
C23_NamesStayUnique ==
    \A i, j \in 1..Len(machines) :
        i # j => sim[machines[i].name][machines[j].name] <= DUPLICATE_SCORE

\* C24: insertion order is preserved by every mutation: a confirmed Add
\* appends the new record and leaves the existing records and their order
\* unchanged; a confirmed Edit replaces only the record at the selected index
\* and keeps the length and every other record; a Remove keeps the surviving
\* records in their original relative order.
C24_InsertionOrderIsPreserved ==
    [][(cli.pc = "confirm" /\ machines' # machines) =>
          /\ cli.cmd = "add" =>
                /\ Len(machines') = Len(machines) + 1
                /\ machines'[Len(machines')] = cli.pending
                /\ \A i \in 1..Len(machines) : machines'[i] = machines[i]
          /\ cli.cmd = "edit" =>
                /\ Len(machines') = Len(machines)
                /\ machines'[cli.index] = cli.pending
                /\ \A i \in 1..Len(machines) : i # cli.index => machines'[i] = machines[i]
          /\ cli.cmd = "remove" =>
                /\ Len(machines') < Len(machines)
                /\ IsSubsequence(machines', machines)]_vars

C24_Witness ==
    /\ cli.pc = "exit"
    /\ cli.cmd = "remove"
    /\ cli.answer = "yes"
    /\ cli.indexes = <<1>>
    /\ Len(machines) = 2
    /\ machines[1] # machines[2]
    /\ disk = machines

\* C26: in Add, Edit and Remove, when the user cancels or interrupts a prompt,
\* declines the confirmation or (Edit) submits a record equal to the existing
\* one, the collection is left exactly as it was and the configuration is not
\* saved; the configuration is saved only after a confirmed change of the
\* collection.
C26_OnlyConfirmedChangesAreSaved ==
    [][/\ (/\ cli.pc \in {"start", "name_prompt", "mac_prompt", "confirm"}
           /\ cli'.cmd \in {"add", "edit", "remove"}
           /\ \/ cli'.answer \in {"cancel", "no"}
              \/ cli'.out = "No changes made")
          => (machines' = machines /\ disk' = disk)
       /\ disk' # disk
          => /\ Confirmed
             /\ machines' # machines
             /\ disk' = machines']_vars

C26_Witness ==
    /\ cli.pc = "exit"
    /\ cli.cmd = "edit"
    /\ cli.answer = "no"
    /\ cli.pending # machines[cli.index]
    /\ machines # <<>>
    /\ disk = machines

====
